---- MODULE Spec2Model ----
(***************************************************************************)
(* Model of the background task scheduler of simple_multiprocess_manager.py *)
(* (SimpleTaskScheduler, worker_process, the result monitor thread).        *)
(*                                                                          *)
(* Strings are sequences of one-character strings, so that formatting,      *)
(* substring search and os.path.basename are computed, not assumed.  A      *)
(* fixed literal of the source (a message, a header) is one atom.  The      *)
(* three case names of the source are three-character strings; they are     *)
(* transliterated one character each, keeping which characters they share:  *)
(*    Wu-nv-shi  = <<"W","n","s">>   Wang-nv-shi = <<"K","n","s">>          *)
(*    Zhang-xian-sheng = <<"Z","x","g">>                                    *)
(* Time is counted in ticks of one time unit (1 s).  A sleep or a timeout   *)
(* of n units ends no earlier than n ticks after it began.  Under           *)
(* contention (contention = TRUE) every step may be late by any amount, so  *)
(* a sleep shorter than a tick (0.1 s, 0.2 s) constrains nothing and counts *)
(* 0 ticks.  Without contention every step that can run does run before     *)
(* the next tick, and a sleep shorter than a tick is rounded up to one      *)
(* tick, the latest it can end.                                             *)
(* The float timestamp fields of SimpleTask and SimpleResult are never read *)
(* by the scheduler and are left out of the records.                        *)
(***************************************************************************)
EXTENDS Integers, Sequences, FiniteSets, TLC

VARIABLES
    task_counter,     \* SimpleTaskScheduler.task_counter
    task_queue,       \* inbound multiprocessing.Queue: tasks and None sentinels
    result_queue,     \* outbound multiprocessing.Queue of SimpleResult
    pending_tasks,    \* dict task_id -> SimpleTask
    completed_tasks,  \* dict task_id -> SimpleResult
    scripts_data,     \* per worker: the table it loaded at startup
    wpc,              \* per worker: "get", "sleep", "exited", "terminated",
                      \* "unstarted" (not in the pool)
    wtask,            \* per worker: its local variable `task` (NoTask = unbound)
    wtimer,           \* per worker: ticks left of time.sleep(2)
    mpc,              \* monitor thread: "check", "insert"
    mres,             \* monitor thread: its local variable `result`
    mtimer,           \* monitor thread: ticks left of its time.sleep
    gpc,              \* get_task_result caller: "idle", "loop", "sleep"
    gid,              \* get_task_result: argument task_id
    gtimeout,         \* get_task_result: argument timeout (NoTimeout = None)
    gremain,          \* get_task_result: end_time - time.time(), in ticks
    gtimer,           \* get_task_result: ticks left of time.sleep(poll_interval)
    gret,             \* value returned by the last get_task_result call
    greads,           \* reads of completed_tasks made by the current/last call
    gslept,           \* whether the current/last call has called time.sleep
    spc,              \* shutdown(): "idle", "join"
    sidx,             \* shutdown(): index of the worker being joined
    stimer,           \* shutdown(): ticks left of worker.join(timeout=5)
    shutdowns,        \* number of shutdown() calls that have returned
    issued,           \* sequence of task ids returned by submit_task
    faults,           \* number of task_queue.get() calls that raised
    contention,       \* FALSE: every ready step runs before time advances
    scheduler_global, \* _global_simple_scheduler: 0 = None, k = k-th instance
    constructed,      \* number of SimpleTaskScheduler objects constructed
    pools,            \* per instance: whether its worker processes run
    tpc,              \* per thread: position in get_simple_scheduler
    tret,             \* per thread: instance returned by its last call (0: none)
    handlers,         \* signals for which signal_handler is installed
    process,          \* the coordinator process: "running", "exited"
    sub_pc,           \* per thread: position in submit_task
    sub_tmp,          \* per thread: counter value loaded by `+= 1`
    sub_task,         \* per thread: its local variable `task`
    current_case,     \* AsyncCheatExperimentFunctions.current_case
    main_data,        \* AsyncCheatExperimentFunctions.scripts_data
    last_call         \* the last call of an async_* method and what it returned

vars == << task_counter, task_queue, result_queue, pending_tasks,
           completed_tasks, scripts_data, wpc, wtask, wtimer, mpc, mres,
           mtimer, gpc, gid, gtimeout, gremain, gtimer, gret, greads, gslept,
           spc, sidx, stimer, shutdowns, issued, faults, contention,
           scheduler_global, constructed, pools, tpc, tret, handlers, process,
           sub_pc, sub_tmp, sub_task, current_case, main_data, last_call >>

\* the module-level state of simple_multiprocess_manager and the threads
\* calling get_simple_scheduler
pvars == << scheduler_global, constructed, pools, tpc, tret, handlers, process >>
\* threads inside submit_task
cvars == << sub_pc, sub_tmp, sub_task >>
\* the AsyncCheatExperimentFunctions object
evars == << current_case, main_data, last_call >>
xvars == << pvars, cvars, evars >>

----------------------------------------------------------------------------
(* Bounds of the model *)

MaxTasks == 2        \* submit_task calls in one behaviour
MaxMs == 1           \* readings of int(time.time() * 1000) range over 0..MaxMs
MaxFaults == 1       \* task_queue.get() calls that raise
MaxShutdowns == 2    \* shutdown() calls

MaxReads == 2        \* greads counts up to MaxReads and stays there
MaxThreads == 2      \* request-handler threads besides the main thread

(* Program constants, in ticks *)

NumWorkers == 2      \* get_simple_scheduler: SimpleTaskScheduler(num_workers=2)
ProcessDelaySlow == 3 * 2   \* a processing delay longer than the 5-unit wait
ProcessDelay == 2    \* worker_process: time.sleep(2)
JoinTimeout == 5     \* shutdown: worker.join(timeout=5)
LongSleep == 1       \* monitor_results: time.sleep(1) after an exception
LongWait == 5       \* the 5-unit wait of the completion property

Workers == 1..NumWorkers

----------------------------------------------------------------------------
(* Strings *)

Min(a, b) == IF a < b THEN a ELSE b

\* Python `sub in s` for strings
Contains(s, sub) ==
    \E i \in 1..(Len(s) - Len(sub) + 1) :
        SubSeq(s, i, i + Len(sub) - 1) = sub

\* os.path.basename(p): what follows the last "/"
Basename(p) ==
    LET slashes == { i \in 1..Len(p) : p[i] = "/" }
    IN  IF slashes = {} THEN p
        ELSE LET last == CHOOSE i \in slashes : \A j \in slashes : j <= i
             IN  SubSeq(p, last + 1, Len(p))

Digit(d) == CASE d = 0 -> "0" [] d = 1 -> "1" [] d = 2 -> "2" [] d = 3 -> "3"
              [] d = 4 -> "4" [] d = 5 -> "5" [] d = 6 -> "6" [] d = 7 -> "7"
              [] d = 8 -> "8" [] d = 9 -> "9"

\* str(n) of a non-negative int, as an f-string formats it
RECURSIVE IntToStr(_)
IntToStr(n) == IF n < 10 THEN << Digit(n) >>
               ELSE IntToStr(n \div 10) \o << Digit(n % 10) >>

\* The case names tested by worker_process
Wu == << "W", "n", "s" >>
Wang == << "K", "n", "s" >>
Zhang == << "Z", "x", "g" >>
KnownCases == { Wu, Wang, Zhang }
NoCase == << >>      \* case_name None (or ""): both are falsy in `not case_name`

\* task_type values
Speech == << "s", "p", "e", "e", "c", "h" >>
Reasoning == << "r", "e", "a", "s", "o", "n", "i", "n", "g" >>
OtherType == << "o", "c", "r" >>

----------------------------------------------------------------------------
(* Values *)

Sentinel == [ sentinel |-> TRUE ]       \* the None put on task_queue by shutdown
NoTask == [ unbound |-> TRUE ]          \* `task` not yet in locals()
NoResult == [ unbound |-> TRUE ]        \* the monitor's `result` before a pop
Absent == [ absent |-> TRUE ]           \* dict.get(...) returning None
NoRow == [ norow |-> TRUE ]             \* get_case_data returning None
NoData == [ loaded |-> FALSE ]          \* scripts_data is None
NoTimeout == << >>                      \* timeout=None; a number T is << T >>
Unknown == << "u", "n", "k", "n", "o", "w", "n" >>

\* The tables a worker may have loaded from scripts.xlsx
DataFull ==
    [ loaded |-> TRUE,
      rows |-> << [ case |-> Wu, dialogue |-> << "D1" >>, reasoning |-> << "R1" >> ],
                  [ case |-> Wang, dialogue |-> << "D2" >>, reasoning |-> << "R2" >> ],
                  [ case |-> Zhang, dialogue |-> << "D3" >>, reasoning |-> << "R3" >> ],
                  [ case |-> Wu, dialogue |-> << "D4" >>, reasoning |-> << "R4" >> ] >> ]
DataPartial ==
    [ loaded |-> TRUE,
      rows |-> << [ case |-> Wang, dialogue |-> << "D2" >> ] >> ]
DataSets == { NoData, DataFull, DataPartial }

\* the last matching row instead of the first
get_case_data_last(data, case_name) ==
    IF ~data.loaded THEN NoRow
    ELSE LET hits == SelectSeq(data.rows, LAMBDA r : r.case = case_name)
         IN  IF hits # << >> THEN hits[Len(hits)] ELSE NoRow

\* worker_process.get_case_data: first row whose 'case' equals case_name
get_case_data(data, case_name) ==
    IF ~data.loaded THEN NoRow
    ELSE LET hits == SelectSeq(data.rows, LAMBDA r : r.case = case_name)
         IN  IF hits # << >> THEN hits[1] ELSE NoRow

\* dict.get(key, default) on a row
RowGet(row, key, default) == IF key \in DOMAIN row THEN row[key] ELSE default

\* the chain with the first name copied into the second branch
MatchCaseCopied(s) ==
    IF Contains(s, Wu) THEN Wu
    ELSE IF Contains(s, Wang) THEN Wu
    ELSE IF Contains(s, Zhang) THEN Zhang
    ELSE NoCase

\* the if/elif chain on the three names (lines 96-103 and 126-131)
MatchCase(s) ==
    IF Contains(s, Wu) THEN Wu
    ELSE IF Contains(s, Wang) THEN Wang
    ELSE IF Contains(s, Zhang) THEN Zhang
    ELSE NoCase

\* speech branch: the case is taken from the file name of the audio reference
SpeechCase(task) == MatchCase(Basename(task.data))

\* the text searched first, the passed case name used only when it names none
ReasoningCaseInferFirst(task) ==
    IF MatchCase(task.data) # NoCase THEN MatchCase(task.data)
    ELSE task.case_name

\* reasoning branch: the passed case name, else inferred from the text
ReasoningCase(task) ==
    IF task.case_name # NoCase THEN task.case_name ELSE MatchCase(task.data)

MsgNoAudioCase(name) == << "cannot identify the case of audio file: " >> \o name
MsgNoCaseData(c) == << "no data found for case " >> \o c \o << " (data)" >>
MsgNoCaseName == << "cannot determine the case name, run transcription first" >>
MsgUnknownType(t) == << "unknown task type: " >> \o t
MsgFailed(e) == << "processing failed: " >> \o e
DialogueHeader(c) == << "=== " >> \o c \o << " dialogue record ===", "\n", "\n" >>
ReasoningHeader(c) == << "=== " >> \o c \o << " medical reasoning ===", "\n", "\n" >>
DialogueDefault == << "dialogue not found" >>
ReasoningDefault == << "reasoning not found" >>

\* the `result` string computed by lines 91-149
ResultText(task, data) ==
    IF task.task_type = Speech THEN
        LET case_name == SpeechCase(task)
        IN  IF case_name = NoCase THEN MsgNoAudioCase(Basename(task.data))
            ELSE LET case_data == get_case_data(data, case_name)
                 IN  IF case_data = NoRow THEN MsgNoCaseData(case_name)
                     ELSE DialogueHeader(case_name)
                            \o RowGet(case_data, "dialogue", DialogueDefault)
    ELSE IF task.task_type = Reasoning THEN
        LET case_name == ReasoningCase(task)
        IN  IF case_name = NoCase THEN MsgNoCaseName
            ELSE LET case_data == get_case_data(data, case_name)
                 IN  IF case_data = NoRow THEN MsgNoCaseData(case_name)
                     ELSE ReasoningHeader(case_name)
                            \o RowGet(case_data, "reasoning", ReasoningDefault)
    ELSE MsgUnknownType(task.task_type)

\* the status given to every result built at lines 152-157
NormalStatus == "success"

\* SimpleResult built at lines 152-157
simple_result(task, data) ==
    [ task_id |-> task.task_id, result |-> ResultText(task, data),
      status |-> NormalStatus ]

\* SimpleResult built by the exception handler, lines 165-170
error_result(local_task, e) ==
    [ task_id |-> IF local_task # NoTask THEN local_task.task_id ELSE Unknown,
      result |-> MsgFailed(e), status |-> "error" ]

\* an id formatted without the counter
TaskIdNoCounter(task_type, uid, counter, ms) ==
    task_type \o << "_" >> \o uid \o << "_" >> \o IntToStr(ms)

\* submit_task line 237: f"{task_type}_{uid}_{self.task_counter}_{ms}"
TaskId(task_type, uid, counter, ms) ==
    task_type \o << "_" >> \o uid \o << "_" >> \o IntToStr(counter)
        \o << "_" >> \o IntToStr(ms)

SimpleTask(task_type, task_id, data, uid, case_name) ==
    [ task_type |-> task_type, task_id |-> task_id, data |-> data,
      uid |-> uid, case_name |-> case_name ]

----------------------------------------------------------------------------
(* Inputs *)

PWuFile == << "a", "/", "W", "n", "s", ".", "m" >>    \* "audio/<Wu>.mp3"
PWuDir == << "W", "n", "s", "/", "x" >>               \* <Wu> only in the directory
PWangFile == << "a", "/", "K", "n", "s" >>            \* "audio/<Wang>"
PPlain == << "a", "/", "x" >>                         \* no case name
PZhangText == << "t", "Z", "x", "g" >>                \* text naming <Zhang>
PWangWu == << "K", "n", "s", "W", "n", "s" >>         \* two names
PSuffix == << "x", "n", "s" >>                        \* shared suffix only
Payloads == { PWuFile, PWuDir, PWangFile, PPlain, PZhangText, PWangWu, PSuffix }
Hints == { NoCase, Wang, Zhang, << "Q" >> }
Uid1 == << "u" >>
Uid2 == << "u", "_", "1" >>

Request(t, d, u, c) == [ task_type |-> t, data |-> d, uid |-> u, case_name |-> c ]

\* the calls the scheduler specifications draw from
Requests ==
    { Request(Speech, PWuFile, Uid1, NoCase),
      Request(Reasoning, PPlain, Uid2, NoCase) }

\* the call made by async_transcribe_speech for the first audio file
LiveRequests == { Request(Speech, PWuFile, Uid1, NoCase) }

\* the calls the worker specification draws from
AllRequests ==
    { Request(t, d, Uid1, c) : t \in { Speech, Reasoning, OtherType },
                               d \in Payloads, c \in Hints }

\* get_task_result timeouts, in ticks
Timeouts == { NoTimeout, << -1 >>, << 0 >>, << 1 >> }
LongTimeouts == { NoTimeout, << 1 >>, << LongWait >> }
NeverSubmitted == << "n", "o", "_", "i", "d" >>

----------------------------------------------------------------------------
(* Dictionaries *)

\* the value is not stored
DictSetDropped(d, k, v) == d

DictSet(d, k, v) == [ x \in DOMAIN d \cup { k } |-> IF x = k THEN v ELSE d[x] ]
\* the key is left in the dict
DictDelNone(d, k) == d

DictDel(d, k) == [ x \in DOMAIN d \ { k } |-> d[x] ]
DictGet(d, k) == IF k \in DOMAIN d THEN d[k] ELSE Absent
EmptyDict == [ x \in { } |-> Absent ]

\* every worker process is taken for ended
AliveNever(w) == FALSE

\* Process.is_alive: the worker has neither left its loop nor been terminated
Alive(w) == wpc[w] \in { "get", "sleep" }

----------------------------------------------------------------------------
(* State after SimpleTaskScheduler.__init__ *)

\* the threads of the coordinator process: 0 is the main thread, the others
\* are the threads in which request handlers run
Threads == 0..MaxThreads
MainThread == 0
NoTmp == -1
NoCall == [ fn |-> "none" ]

\* module level of simple_multiprocess_manager: line 302, no caller yet
InitThreads ==
    /\ scheduler_global = 0
    /\ constructed = 0
    /\ pools = { }
    /\ tpc = [ t \in Threads |-> "idle" ]
    /\ tret = [ t \in Threads |-> 0 ]
    /\ handlers = { }
    /\ process = "running"
    /\ sub_pc = [ t \in Threads |-> "idle" ]
    /\ sub_tmp = [ t \in Threads |-> NoTmp ]
    /\ sub_task = [ t \in Threads |-> NoTask ]

\* AsyncCheatExperimentFunctions.__init__: the table read by _load_scripts
InitExperiment(datas) ==
    /\ current_case = NoCase
    /\ main_data \in datas
    /\ last_call = NoCall

\* __init__ lines 179-185 and 189 with num_workers = n, with the tasks
\* already submitted (none in Init): the workers 1..n are started by
\* _start_workers, the other workers of the model are not in the pool
InitPool(n, c, tables, tasks) ==
    /\ task_counter = Len(tasks)
    /\ task_queue = tasks
    /\ result_queue = << >>
    /\ pending_tasks = [ id \in { tasks[i].task_id : i \in DOMAIN tasks } |->
                           CHOOSE t \in { tasks[i] : i \in DOMAIN tasks } :
                               t.task_id = id ]
    /\ completed_tasks = EmptyDict
    /\ scripts_data \in tables
    /\ wpc = [ w \in Workers |-> IF w <= n THEN "get" ELSE "unstarted" ]
    /\ wtask = [ w \in Workers |-> NoTask ]
    /\ wtimer = [ w \in Workers |-> 0 ]
    /\ mpc = "check"
    /\ mres = NoResult
    /\ mtimer = 0
    /\ gpc = "idle"
    /\ gid = NeverSubmitted
    /\ gtimeout = NoTimeout
    /\ gremain = 0
    /\ gtimer = 0
    /\ gret = Absent
    /\ greads = 0
    /\ gslept = FALSE
    /\ spc = "idle"
    /\ sidx = 0
    /\ stimer = 0
    /\ shutdowns = 0
    /\ issued = [ i \in DOMAIN tasks |-> tasks[i].task_id ]
    /\ faults = 0
    /\ contention \in c

\* the scheduler that get_simple_scheduler constructs at line 308
InitScheduler(c, tables, tasks) == InitPool(NumWorkers, c, tables, tasks)

\* the scheduler in a process where nothing else has happened yet
InitWith(c, tables, tasks) ==
    /\ InitThreads
    /\ InitExperiment({ DataFull })
    /\ InitScheduler(c, tables, tasks)

\* every worker has loaded the full table
AllLoaded == { [ w \in Workers |-> DataFull ] }

Init == InitWith({ TRUE }, AllLoaded, << >>)

wvars == << scripts_data, wpc, wtask, wtimer >>
mvars == << mpc, mres, mtimer >>
gvars == << gpc, gid, gtimeout, gremain, gtimer, gret, greads, gslept >>
svars == << spc, sidx, stimer, shutdowns >>

----------------------------------------------------------------------------
(* SimpleTaskScheduler.submit_task *)

\* the value of task_counter after line 236
NextCounter(n) == n + 1

SubmitTask(req, ms) ==
    /\ task_counter < MaxTasks
    /\ LET counter == NextCounter(task_counter)
           task_id == TaskId(req.task_type, req.uid, counter, ms)
           task == SimpleTask(req.task_type, task_id, req.data, req.uid,
                              req.case_name)
       IN  /\ task_counter' = counter
           /\ pending_tasks' = DictSet(pending_tasks, task_id, task)
           /\ task_queue' = Append(task_queue, task)
           /\ issued' = Append(issued, task_id)
    /\ UNCHANGED << result_queue, completed_tasks, wvars, mvars, gvars, svars,
                    faults, contention, xvars >>

\* a submit_task call with arguments from reqs, made at a clock reading from mss
Submit(reqs, mss) == \E req \in reqs, ms \in mss : SubmitTask(req, ms)

----------------------------------------------------------------------------
(* worker_process *)

\* the item put last
QueueGetLast(q) == q[Len(q)]

\* multiprocessing.Queue.get: the item that was put first
QueueGet(q) == Head(q)

\* line 81-88: a worker blocked in task_queue.get() receives the head
WorkerGet(w) ==
    /\ wpc[w] = "get"
    /\ task_queue # << >>
    /\ task_queue' = Tail(task_queue)
    /\ IF Head(task_queue) = Sentinel
       THEN /\ wpc' = [ wpc EXCEPT ![w] = "exited" ]
            /\ UNCHANGED << wtask, wtimer >>
       ELSE /\ wpc' = [ wpc EXCEPT ![w] = "sleep" ]
            /\ wtask' = [ wtask EXCEPT ![w] = QueueGet(task_queue) ]
            /\ wtimer' = [ wtimer EXCEPT ![w] = ProcessDelay ]
    /\ UNCHANGED << task_counter, result_queue, pending_tasks, completed_tasks,
                    scripts_data, mvars, gvars, svars, issued, faults,
                    contention, xvars >>

\* line 90-160: after the sleep the result is built and put on result_queue
WorkerFinish(w) ==
    /\ wpc[w] = "sleep"
    /\ wtimer[w] = 0
    /\ result_queue' = Append(result_queue, simple_result(wtask[w], scripts_data[w]))
    /\ wpc' = [ wpc EXCEPT ![w] = "get" ]
    /\ UNCHANGED << task_counter, task_queue, pending_tasks, completed_tasks,
                    scripts_data, wtask, wtimer, mvars, gvars, svars, issued,
                    faults, contention, xvars >>

\* the worker leaves its loop when an exception has been handled
AfterExceptionBreaks(pcs, w) == [ pcs EXCEPT ![w] = "exited" ]

\* lines 162-171 have no break: after the handler the loop of line 78 goes
\* back to task_queue.get()
AfterException(pcs, w) == [ pcs EXCEPT ![w] = "get" ]

\* line 81 raising (the received item cannot be deserialized), handled at
\* lines 162-171: the item is consumed and an error result is put
WorkerGetRaises(w) ==
    /\ wpc[w] = "get"
    /\ faults < MaxFaults
    /\ task_queue # << >>
    /\ Head(task_queue) # Sentinel
    /\ task_queue' = Tail(task_queue)
    /\ result_queue' = Append(result_queue, error_result(wtask[w], << "E" >>))
    /\ wpc' = AfterException(wpc, w)
    /\ faults' = faults + 1
    /\ UNCHANGED << task_counter, pending_tasks, completed_tasks, scripts_data,
                    wtask, wtimer, mvars, gvars, svars, issued, contention, xvars >>

\* a statement of lines 85-160 raising while the worker holds a task,
\* handled at lines 162-171: no normal result is put, an error result is
WorkerRaises(w) ==
    /\ wpc[w] = "sleep"
    /\ faults < MaxFaults
    /\ result_queue' = Append(result_queue, error_result(wtask[w], << "E" >>))
    /\ wpc' = AfterException(wpc, w)
    /\ wtimer' = [ wtimer EXCEPT ![w] = 0 ]
    /\ faults' = faults + 1
    /\ UNCHANGED << task_counter, task_queue, pending_tasks, completed_tasks,
                    scripts_data, wtask, mvars, gvars, svars, issued,
                    contention, xvars >>

----------------------------------------------------------------------------
(* Time *)

\* ticks counted for time.sleep(0.1) and time.sleep(poll_interval = 0.2)
ShortSleep == IF contention THEN 0 ELSE 1

Dec(t) == IF t > 0 THEN t - 1 ELSE t

\* a step of a worker, of the monitor or of a waiting caller can run now
Ready ==
    \/ \E w \in Workers : wpc[w] = "get" /\ task_queue # << >>
    \/ \E w \in Workers : wpc[w] = "sleep" /\ wtimer[w] = 0
    \/ mtimer = 0
    \/ gpc = "loop" /\ gtimer = 0
    \/ spc = "join" /\ (~Alive(sidx) \/ stimer = 0)

\* one time unit passes: every running sleep, join and deadline gets closer
Tick ==
    /\ contention \/ ~Ready
    /\ \/ \E w \in Workers : wtimer[w] > 0
       \/ mtimer > 0 \/ gtimer > 0 \/ stimer > 0
       \/ gpc = "loop" /\ gremain > 0
    /\ wtimer' = [ w \in Workers |-> Dec(wtimer[w]) ]
    /\ mtimer' = Dec(mtimer)
    /\ gtimer' = Dec(gtimer)
    /\ gremain' = IF gpc = "loop" THEN Dec(gremain) ELSE gremain
    /\ stimer' = Dec(stimer)
    /\ UNCHANGED << task_counter, task_queue, result_queue, pending_tasks,
                    completed_tasks, scripts_data, wpc, wtask, mpc, mres, gpc,
                    gid, gtimeout, gret, greads, gslept, spc, sidx, shutdowns,
                    issued, faults, contention, xvars >>

----------------------------------------------------------------------------
(* the monitor thread, _start_result_monitor.monitor_results *)

\* lines 214-219 and 224: one look at result_queue; a result found is popped
\* and its id deleted from pending_tasks, else the thread sleeps
MonitorCheck ==
    /\ mpc = "check"
    /\ mtimer = 0
    /\ IF result_queue # << >>
       THEN /\ mres' = Head(result_queue)
            /\ result_queue' = Tail(result_queue)
            /\ pending_tasks' = DictDel(pending_tasks, Head(result_queue).task_id)
            /\ mpc' = "insert"
            /\ UNCHANGED mtimer
       ELSE /\ mtimer' = ShortSleep
            /\ UNCHANGED << mres, result_queue, pending_tasks, mpc >>
    /\ UNCHANGED << task_counter, task_queue, completed_tasks, wvars, gvars,
                    svars, issued, faults, contention, xvars >>

\* lines 221-224: the popped result is stored, then the thread sleeps
MonitorInsert ==
    /\ mpc = "insert"
    /\ completed_tasks' = DictSet(completed_tasks, mres.task_id, mres)
    /\ mres' = NoResult
    /\ mpc' = "check"
    /\ mtimer' = ShortSleep
    /\ UNCHANGED << task_counter, task_queue, result_queue, pending_tasks,
                    wvars, gvars, svars, issued, faults, contention, xvars >>

\* the thread ends when an exception has been handled
AfterMonitorExceptionExits == "exited"

\* lines 226-228 have no break or return: the loop of line 211 goes on
AfterMonitorException == "check"

\* lines 214-215 raising before an item has been taken (a queue operation
\* failing), handled at lines 226-228: the error is logged and the thread
\* sleeps one unit before its next look
MonitorRaises ==
    /\ mpc = "check"
    /\ mtimer = 0
    /\ faults < MaxFaults
    /\ mpc' = AfterMonitorException
    /\ mtimer' = LongSleep
    /\ faults' = faults + 1
    /\ UNCHANGED << mres, task_counter, task_queue, result_queue,
                    pending_tasks, completed_tasks, wvars, gvars, svars,
                    issued, contention, xvars >>

----------------------------------------------------------------------------
(* SimpleTaskScheduler.get_task_result *)

\* entry of a call get_task_result(id, timeout); line 274 sets the deadline
GetCall(id, timeout) ==
    /\ gpc \in { "idle", "done" }
    /\ gpc' = "loop"
    /\ gid' = id
    /\ gtimeout' = timeout
    /\ gremain' = IF timeout = NoTimeout THEN 0 ELSE timeout[1]
    /\ gtimer' = 0
    /\ greads' = 0
    /\ gslept' = FALSE
    /\ gret' = Absent
    /\ UNCHANGED << task_counter, task_queue, result_queue, pending_tasks,
                    completed_tasks, wvars, mvars, svars, issued, faults,
                    contention, xvars >>

\* the snapshot looked up in the wrong dict
SnapshotReadPending(id) == DictGet(pending_tasks, id)

\* line 272: the value returned when timeout is None
SnapshotRead(id) == DictGet(completed_tasks, id)

\* giving up at the deadline without the last read
FinalReadSkipped(id) == Absent

\* line 282: the value returned once the deadline has passed
FinalRead(id) == DictGet(completed_tasks, id)

\* a wait that gives up withdraws the task
GetCancels ==
    IF gpc' = "done" /\ gtimeout # NoTimeout /\ gret' = Absent
    THEN /\ task_queue' = SelectSeq(task_queue,
                                    LAMBDA t : t = Sentinel \/ t.task_id # gid)
         /\ pending_tasks' = DictDel(pending_tasks, gid)
         /\ UNCHANGED << task_counter, result_queue, completed_tasks, wvars,
                         mvars, svars, issued, faults, contention, xvars >>
    ELSE UNCHANGED << task_counter, task_queue, result_queue, pending_tasks,
                      completed_tasks, wvars, mvars, svars, issued, faults,
                      contention, xvars >>

\* a call that returns a Result takes it out of completed_tasks
GetConsumes ==
    /\ completed_tasks' = IF gpc' = "done" /\ gret' # Absent
                          THEN DictDel(completed_tasks, gid)
                          ELSE completed_tasks
    /\ UNCHANGED << task_counter, task_queue, result_queue, pending_tasks,
                    wvars, mvars, svars, issued, faults, contention, xvars >>

\* get_task_result assigns to nothing but its own locals
GetUntouched ==
    UNCHANGED << task_counter, task_queue, result_queue, pending_tasks,
                 completed_tasks, wvars, mvars, svars, issued, faults,
                 contention, xvars >>

\* lines 271-282: the snapshot read, one turn of the polling loop, or the
\* read made after the deadline
GetStep ==
    /\ gpc = "loop"
    /\ gtimer = 0
    /\ greads' = Min(greads + 1, MaxReads)
    /\ IF gtimeout # NoTimeout /\ gremain > 0
       THEN \* line 275 true: lines 276-279
            IF gid \in DOMAIN completed_tasks
            THEN /\ gret' = completed_tasks[gid]
                 /\ gpc' = "done"
                 /\ UNCHANGED << gtimer, gslept >>
            ELSE /\ gtimer' = ShortSleep
                 /\ gslept' = TRUE
                 /\ UNCHANGED << gret, gpc >>
       ELSE \* line 272, or line 282 after the loop
            /\ gret' = IF gtimeout = NoTimeout THEN SnapshotRead(gid)
                       ELSE FinalRead(gid)
            /\ gpc' = "done"
            /\ UNCHANGED << gtimer, gslept >>
    /\ UNCHANGED << gid, gtimeout, gremain >>
    /\ GetUntouched

----------------------------------------------------------------------------
(* SimpleTaskScheduler.shutdown *)

\* a single None whatever the number of workers
SentinelsOne(n) == << Sentinel >>

\* lines 289-290: one None per element of self.workers
Sentinels(n) == [ i \in 1..n |-> Sentinel ]

\* lines 289-290, and the first worker.join(timeout=5) begins
ShutdownCall ==
    /\ spc = "idle"
    /\ shutdowns < MaxShutdowns
    /\ task_queue' = task_queue \o Sentinels(NumWorkers)
    /\ spc' = "join"
    /\ sidx' = 1
    /\ stimer' = JoinTimeout
    /\ UNCHANGED << shutdowns, task_counter, result_queue, pending_tasks,
                    completed_tasks, wvars, mvars, gvars, issued, faults,
                    contention, xvars >>

\* the bounded join gives up and the worker is left running
AfterJoinTimeoutKeeps(pcs, w) == pcs

\* lines 295-297: a worker still alive after the bounded join is terminated
AfterJoinTimeout(pcs, w) == [ pcs EXCEPT ![w] = "terminated" ]

\* lines 293-297 for one worker: join returns because the worker has ended,
\* or because the timeout expired and then the worker is terminated
ShutdownJoin ==
    /\ spc = "join"
    /\ \/ ~Alive(sidx) /\ UNCHANGED << wpc, wtimer >>
       \/ /\ Alive(sidx)
          /\ stimer = 0
          /\ wpc' = AfterJoinTimeout(wpc, sidx)
          /\ wtimer' = [ wtimer EXCEPT ![sidx] = 0 ]
    /\ IF sidx < NumWorkers
       THEN /\ sidx' = sidx + 1
            /\ stimer' = JoinTimeout
            /\ UNCHANGED << spc, shutdowns >>
       ELSE /\ sidx' = 0
            /\ stimer' = 0
            /\ spc' = "idle"
            /\ shutdowns' = shutdowns + 1
    /\ UNCHANGED << task_counter, task_queue, result_queue, pending_tasks,
                    completed_tasks, scripts_data, wtask, mvars, gvars,
                    issued, faults, contention, xvars >>

----------------------------------------------------------------------------
(* get_simple_scheduler and the signal handler it installs *)

schedvars == << task_counter, task_queue, result_queue, pending_tasks,
                completed_tasks, wvars, mvars, gvars, svars, issued, faults,
                contention >>

\* line 307: the test `_global_simple_scheduler is None`
GssTest(t) ==
    /\ process = "running"
    /\ tpc[t] = "idle"
    /\ tpc' = [ tpc EXCEPT ![t] = IF scheduler_global = 0 THEN "construct"
                                  ELSE "return" ]
    /\ UNCHANGED << scheduler_global, constructed, pools, tret, handlers,
                    process, cvars, evars, schedvars >>

\* line 308: a SimpleTaskScheduler is constructed (its workers start) and
\* assigned to the global
GssConstruct(t) ==
    /\ process = "running"
    /\ tpc[t] = "construct"
    /\ constructed' = constructed + 1
    /\ scheduler_global' = constructed + 1
    /\ pools' = pools \cup { constructed + 1 }
    /\ tpc' = [ tpc EXCEPT ![t] = "sigint" ]
    /\ UNCHANGED << tret, handlers, process, cvars, evars, schedvars >>

\* signal.signal(sig, signal_handler): installs the handler in the main
\* thread; in any other thread it raises ValueError, which leaves
\* get_simple_scheduler without a return value
Register(t, sig, pc) ==
    IF t = MainThread
    THEN /\ handlers' = handlers \cup { sig }
         /\ tpc' = [ tpc EXCEPT ![t] = pc ]
         /\ UNCHANGED tret
    ELSE /\ tpc' = [ tpc EXCEPT ![t] = "idle" ]
         /\ tret' = [ tret EXCEPT ![t] = 0 ]
         /\ UNCHANGED handlers

\* lines 318 and 319
GssRegister(t) ==
    /\ process = "running"
    /\ \/ tpc[t] = "sigint" /\ Register(t, "SIGINT", "sigterm")
       \/ tpc[t] = "sigterm" /\ Register(t, "SIGTERM", "return")
    /\ UNCHANGED << scheduler_global, constructed, pools, process, cvars,
                    evars, schedvars >>

\* line 321: the current value of the global is returned
GssReturn(t) ==
    /\ process = "running"
    /\ tpc[t] = "return"
    /\ tret' = [ tret EXCEPT ![t] = scheduler_global ]
    /\ tpc' = [ tpc EXCEPT ![t] = "idle" ]
    /\ UNCHANGED << scheduler_global, constructed, pools, handlers, process,
                    cvars, evars, schedvars >>

Signals == { "SIGINT", "SIGTERM" }

\* a signal is delivered to the coordinator.  With signal_handler installed
\* (lines 312-316) shutdown() of the global instance runs, which leaves none
\* of its workers alive, then os._exit(0).  SIGTERM without a handler ends
\* the process at once and touches no worker.  (SIGINT without a handler
\* raises KeyboardInterrupt in the main thread, whose outcome is decided
\* outside these two files; it is not a step of this model.)
Signal(sig) ==
    /\ process = "running"
    /\ IF sig \in handlers
       THEN pools' = pools \ { scheduler_global }
       ELSE sig = "SIGTERM" /\ UNCHANGED pools
    /\ process' = "exited"
    /\ UNCHANGED << scheduler_global, constructed, tpc, tret, handlers, cvars,
                    evars, schedvars >>

----------------------------------------------------------------------------
(* AsyncCheatExperimentFunctions with no scheduler: _get_scheduler returns *)
(* None and the async_* methods compute their answer in process            *)

MsgNoAudioCaseSync == << "cannot identify the case of audio file" >>
MsgSelectCase == << "select a case first" >>

\* transcribe_speech, lines 120-151: the text returned
transcribe_speech(audio_file, data) ==
    LET case_name == MatchCase(Basename(audio_file))
    IN  IF case_name = NoCase THEN MsgNoAudioCaseSync
        ELSE LET case_data == get_case_data(data, case_name)
             IN  IF case_data = NoRow THEN MsgNoCaseData(case_name)
                 ELSE DialogueHeader(case_name)
                        \o RowGet(case_data, "dialogue", DialogueDefault)

\* transcribe_speech, line 144: current_case is set when a row was found
transcribe_case(audio_file, data, current) ==
    LET case_name == MatchCase(Basename(audio_file))
    IN  IF case_name # NoCase /\ get_case_data(data, case_name) # NoRow
        THEN case_name ELSE current

\* generate_medical_reasoning, lines 218-237: the text returned; the
\* argument `text` is not read
generate_medical_reasoning(text, data, current) ==
    IF current = NoCase THEN MsgSelectCase
    ELSE LET case_data == get_case_data(data, current)
         IN  IF case_data = NoRow THEN MsgNoCaseData(current)
             ELSE ReasoningHeader(current)
                    \o RowGet(case_data, "reasoning", ReasoningDefault)

\* async_medical_reasoning, lines 252-260: the case_name it submits
ReasoningHint(text, current) ==
    IF current # NoCase THEN current ELSE MatchCase(text)

\* async_transcribe_speech, lines 160-163, with scheduler None
AsyncTranscribeFallback(audio_file) ==
    /\ last_call' = [ fn |-> "speech", arg |-> audio_file,
                      case_before |-> current_case,
                      ret |-> transcribe_speech(audio_file, main_data) ]
    /\ current_case' = transcribe_case(audio_file, main_data, current_case)
    /\ UNCHANGED << main_data, pvars, cvars, schedvars >>

\* async_medical_reasoning, lines 246-249, with scheduler None
AsyncReasoningFallback(text) ==
    /\ last_call' = [ fn |-> "reasoning", arg |-> text,
                      case_before |-> current_case,
                      ret |-> generate_medical_reasoning(text, main_data,
                                                         current_case) ]
    /\ UNCHANGED << current_case, main_data, pvars, cvars, schedvars >>

----------------------------------------------------------------------------
(* submit_task called by several threads: the statements of one call are   *)
(* steps of the calling thread, and `self.task_counter += 1` is a read     *)
(* followed by a write                                                      *)

\* the item is put twice
QueuePutTwice(q, item) == Append(Append(q, item), item)

\* multiprocessing.Queue.put: the item goes to the end of the queue; the
\* queue has no maximum size, so put never waits
QueuePut(q, item) == Append(q, item)

\* the task is not recorded
RecordPendingSkipped(d, task) == d

\* line 249: self.pending_tasks[task_id] = task
RecordPending(d, task) == DictSet(d, task.task_id, task)

\* submit_task calls begun so far
SubmitsBegun ==
    Len(issued) + Cardinality({ t \in Threads : sub_pc[t] # "idle" })

\* line 236, the read of self.task_counter
SubLoad(t) ==
    /\ sub_pc[t] = "idle"
    /\ SubmitsBegun < MaxTasks
    /\ sub_tmp' = [ sub_tmp EXCEPT ![t] = task_counter ]
    /\ sub_pc' = [ sub_pc EXCEPT ![t] = "store" ]
    /\ UNCHANGED << sub_task, pvars, evars, schedvars >>

\* line 236, the write of the incremented value
SubStore(t) ==
    /\ sub_pc[t] = "store"
    /\ task_counter' = NextCounter(sub_tmp[t])
    /\ sub_tmp' = [ sub_tmp EXCEPT ![t] = NoTmp ]
    /\ sub_pc' = [ sub_pc EXCEPT ![t] = "format" ]
    /\ UNCHANGED << sub_task, pvars, evars, task_queue, result_queue,
                    pending_tasks, completed_tasks, wvars, mvars, gvars,
                    svars, issued, faults, contention >>

\* lines 237-246: the id is formatted from the counter as it is now
SubFormat(t, req, ms) ==
    /\ sub_pc[t] = "format"
    /\ sub_task' = [ sub_task EXCEPT ![t] =
                       SimpleTask(req.task_type,
                                  TaskId(req.task_type, req.uid, task_counter, ms),
                                  req.data, req.uid, req.case_name) ]
    /\ sub_pc' = [ sub_pc EXCEPT ![t] = "record" ]
    /\ UNCHANGED << sub_tmp, pvars, evars, schedvars >>

\* line 249
SubRecord(t) ==
    /\ sub_pc[t] = "record"
    /\ pending_tasks' = RecordPending(pending_tasks, sub_task[t])
    /\ sub_pc' = [ sub_pc EXCEPT ![t] = "put" ]
    /\ UNCHANGED << sub_tmp, sub_task, pvars, evars, task_counter, task_queue,
                    result_queue, completed_tasks, wvars, mvars, gvars, svars,
                    issued, faults, contention >>

\* lines 252-255: the task is put on task_queue and its id returned
SubPut(t) ==
    /\ sub_pc[t] = "put"
    /\ task_queue' = QueuePut(task_queue, sub_task[t])
    /\ issued' = Append(issued, sub_task[t].task_id)
    /\ sub_task' = [ sub_task EXCEPT ![t] = NoTask ]
    /\ sub_pc' = [ sub_pc EXCEPT ![t] = "idle" ]
    /\ UNCHANGED << sub_tmp, pvars, evars, task_counter, result_queue,
                    pending_tasks, completed_tasks, wvars, mvars, gvars,
                    svars, faults, contention >>

----------------------------------------------------------------------------
(* Specifications *)

\* the threads of one process calling get_simple_scheduler, and signals
NextProcess ==
    \/ \E t \in Threads : GssTest(t)
    \/ \E t \in Threads : GssConstruct(t)
    \/ \E t \in Threads : GssRegister(t)
    \/ \E t \in Threads : GssReturn(t)
    \/ \E sig \in Signals : Signal(sig)

ProcessSpec == Init /\ [][NextProcess]_vars

IssuedIds == { issued[i] : i \in DOMAIN issued }

GetCalls(timeouts) ==
    \E id \in IssuedIds \cup { NeverSubmitted }, t \in timeouts : GetCall(id, t)

\* the experiment object in a process where the scheduler cannot be
\* initialised, with any of the tables loaded
InitCaller ==
    /\ InitThreads
    /\ InitExperiment(DataSets)
    /\ InitScheduler({ TRUE }, AllLoaded, << >>)

\* the texts passed to async_medical_reasoning
PWuText == << "t", "W", "n", "s", "t" >>
Texts == Payloads \cup { PWuText }

NextCaller ==
    \/ \E audio_file \in Payloads : AsyncTranscribeFallback(audio_file)
    \/ \E text \in Texts : AsyncReasoningFallback(text)

CallerSpec == InitCaller /\ [][NextCaller]_vars

\* a step of thread t inside submit_task
SubStep(t) ==
    \/ SubStore(t)
    \/ \E req \in LiveRequests : SubFormat(t, req, 0)
    \/ SubRecord(t)
    \/ SubPut(t)

\* several threads submitting the same request in the same millisecond,
\* with the workers and the monitor thread
NextConcurrent ==
    \/ \E t \in Threads : SubLoad(t)
    \/ \E t \in Threads : SubStore(t)
    \/ \E t \in Threads : \E req \in LiveRequests : SubFormat(t, req, 0)
    \/ \E t \in Threads : SubRecord(t)
    \/ \E t \in Threads : SubPut(t)
    \/ \E w \in Workers : WorkerGet(w)
    \/ \E w \in Workers : WorkerFinish(w)
    \/ \E w \in Workers : WorkerGetRaises(w)
    \/ MonitorCheck
    \/ MonitorInsert
    \/ Tick

ConcurrentSpec == Init /\ [][NextConcurrent]_vars

\* the scheduler with its callers of submit_task and get_task_result
Next ==
    \/ Submit(Requests, { 0 })
    \/ \E w \in Workers : WorkerGet(w)
    \/ \E w \in Workers : WorkerFinish(w)
    \/ \E w \in Workers : WorkerGetRaises(w)
    \/ MonitorCheck
    \/ MonitorInsert
    \/ GetCalls(Timeouts)
    \/ GetStep
    \/ Tick

Spec == Init /\ [][Next]_vars

\* the scheduler with its callers of submit_task and shutdown
NextShutdown ==
    \/ Submit(Requests, { 0 })
    \/ \E w \in Workers : WorkerGet(w)
    \/ \E w \in Workers : WorkerFinish(w)
    \/ \E w \in Workers : WorkerGetRaises(w)
    \/ MonitorCheck
    \/ MonitorInsert
    \/ ShutdownCall
    \/ ShutdownJoin
    \/ Tick

ShutdownSpec == Init /\ [][NextShutdown]_vars

\* the workers with exceptions raised at any point of their loop body, the
\* monitor thread, and the callers of submit_task and shutdown
NextFault ==
    \/ Submit(LiveRequests, { 0 })
    \/ \E w \in Workers : WorkerGet(w)
    \/ \E w \in Workers : WorkerFinish(w)
    \/ \E w \in Workers : WorkerGetRaises(w)
    \/ \E w \in Workers : WorkerRaises(w)
    \/ MonitorCheck
    \/ MonitorInsert
    \/ ShutdownCall
    \/ ShutdownJoin
    \/ Tick

FaultSpec == Init /\ [][NextFault]_vars

\* the workers without exceptions, the monitor thread and the callers of
\* submit_task and shutdown, where shutdown() keeps running and time keeps
\* passing; nothing is assumed of the speed of the workers
NextStop ==
    \/ Submit(LiveRequests, { 0 })
    \/ \E w \in Workers : WorkerGet(w)
    \/ \E w \in Workers : WorkerFinish(w)
    \/ MonitorCheck
    \/ MonitorInsert
    \/ ShutdownCall
    \/ ShutdownJoin
    \/ Tick

ShutdownLiveSpec ==
    Init /\ [][NextStop]_vars /\ WF_vars(ShutdownJoin) /\ WF_vars(Tick)

\* sequences of submit_task calls alone, with task types and submitter ids
\* that contain the separator and digits
SubmitRequests ==
    { Request(t, PPlain, u, NoCase) :
        t \in { Speech, << "s", "_", "1" >> },
        u \in { Uid1, Uid2, << "1", "_", "1" >> } }
ClockReadings == 0..MaxMs \cup { 12 }

NextSubmit == Submit(SubmitRequests, ClockReadings)

SubmitSpec == Init /\ [][NextSubmit]_vars

\* one task of any kind, submitted to workers that loaded any of the tables
InitWorker ==
    \E req \in AllRequests :
        InitWith({ TRUE }, [ Workers -> DataSets ],
                 << SimpleTask(req.task_type,
                               TaskId(req.task_type, req.uid, 1, 0),
                               req.data, req.uid, req.case_name) >>)

NextWorker ==
    \/ \E w \in Workers : WorkerGet(w)
    \/ \E w \in Workers : WorkerFinish(w)
    \/ MonitorCheck
    \/ MonitorInsert
    \/ Tick

WorkerSpec == InitWorker /\ [][NextWorker]_vars

\* the scheduler without shutdown and without failing get(), with or without
\* contention, under fair scheduling of the workers, the monitor thread and
\* the waiting caller, and time that keeps passing
InitLive == InitWith(BOOLEAN, AllLoaded, << >>)

NextLive ==
    \/ Submit(LiveRequests, { 0 })
    \/ \E w \in Workers : WorkerGet(w)
    \/ \E w \in Workers : WorkerFinish(w)
    \/ MonitorCheck
    \/ MonitorInsert
    \/ GetCalls(IF contention THEN Timeouts ELSE LongTimeouts)
    \/ GetStep
    \/ Tick

Fairness ==
    /\ \A w \in Workers : WF_vars(WorkerGet(w)) /\ WF_vars(WorkerFinish(w))
    /\ WF_vars(MonitorCheck)
    /\ WF_vars(MonitorInsert)
    /\ WF_vars(GetStep)
    /\ SF_vars(Tick)

LiveSpec == InitLive /\ [][NextLive]_vars /\ Fairness

\* the monitor thread with exceptions in it and in the workers, with or
\* without contention, under the same fair scheduling
NextCollector ==
    \/ Submit(LiveRequests, { 0 })
    \/ \E w \in Workers : WorkerGet(w)
    \/ \E w \in Workers : WorkerFinish(w)
    \/ \E w \in Workers : WorkerGetRaises(w)
    \/ MonitorCheck
    \/ MonitorInsert
    \/ MonitorRaises
    \/ Tick

CollectorSpec == InitLive /\ [][NextCollector]_vars /\ Fairness

\* the same callers and steps under fair scheduling of the workers, the
\* monitor thread and shutdown(), with or without contention
ShutdownFairSpec ==
    InitLive /\ [][NextStop]_vars /\ Fairness /\ WF_vars(ShutdownJoin)

\* the pool of get_simple_scheduler
TwoWorkers == NumWorkers

\* SimpleTaskScheduler(num_workers=1)
SingleWorker == 1

\* a scheduler of one worker, with or without contention
InitSingle ==
    /\ InitThreads
    /\ InitExperiment({ DataFull })
    /\ InitPool(SingleWorker, BOOLEAN, AllLoaded, << >>)

\* submit_task calls made one at a time, the worker with a get() that can
\* raise, and the monitor thread; no shutdown()
NextSingle ==
    \/ Submit(Requests, { 0 })
    \/ \E w \in Workers : WorkerGet(w)
    \/ \E w \in Workers : WorkerFinish(w)
    \/ \E w \in Workers : WorkerGetRaises(w)
    \/ MonitorCheck
    \/ MonitorInsert
    \/ Tick

SingleWorkerSpec == InitSingle /\ [][NextSingle]_vars

\* the callers of submit_task with the workers and the monitor thread, one
\* shutdown() call, and get_task_result calls made once it has returned
NextAfterShutdown ==
    \/ Submit(LiveRequests, { 0 })
    \/ \E w \in Workers : WorkerGet(w)
    \/ \E w \in Workers : WorkerFinish(w)
    \/ MonitorCheck
    \/ MonitorInsert
    \/ shutdowns = 0 /\ ShutdownCall
    \/ ShutdownJoin
    \/ shutdowns >= 1 /\ GetCalls(Timeouts)
    \/ GetStep
    \/ Tick

AfterShutdownSpec == Init /\ [][NextAfterShutdown]_vars

----------------------------------------------------------------------------
(* Properties *)

\* C1: the task ids returned by any sequence of submit_task calls are
\* pairwise distinct, whatever the task types, the submitter ids and the
\* clock readings, the same millisecond for the same submitter included.
C1_UniqueIds ==
    \A i, j \in DOMAIN issued : i # j => issued[i] # issued[j]

\* two calls with the same task type and submitter in the same millisecond
C1_Witness ==
    /\ Len(issued) >= 2
    /\ issued[1] = TaskId(Speech, Uid2, 1, 0)
    /\ issued[2] = TaskId(Speech, Uid2, 2, 0)

\* C2: every task submitted (no shutdown, no failing get) eventually has a
\* Result recorded in completed_tasks; and without contention, with at most
\* one task per worker, a get_task_result call on a submitted task with a
\* timeout of 5 units returns the Result recorded for it, never absent.
C2_EventualCompletion ==
    /\ \A c \in 1..MaxTasks :
           [](Len(issued) >= c =>
                  <>(Len(issued) >= c /\ issued[c] \in DOMAIN completed_tasks))
    /\ [][ ( /\ ~contention
             /\ task_counter <= NumWorkers
             /\ gpc = "loop" /\ gpc' = "done"
             /\ gtimeout = << LongWait >>
             /\ gid \in IssuedIds )
           => ( /\ gid \in DOMAIN completed_tasks
                /\ gret' = completed_tasks[gid]
                /\ gret'.task_id = gid ) ]_vars

\* a 5-unit wait that slept and then returned the Result, without contention
C2_Witness ==
    /\ ~contention
    /\ gpc = "done"
    /\ gtimeout = << LongWait >>
    /\ gid \in IssuedIds
    /\ gslept
    /\ gret # Absent

\* the Results that exist for a task id: on the outbound channel, in the
\* monitor's hands, or recorded
ResultsFor(id) ==
    Cardinality({ i \in DOMAIN result_queue : result_queue[i].task_id = id })
        + (IF mres # NoResult /\ mres.task_id = id THEN 1 ELSE 0)
        + (IF id \in DOMAIN completed_tasks THEN 1 ELSE 0)

\* C3: each submitted task is processed by one worker only, and no task id
\* ever has two Results.
C3_AtMostOnce ==
    /\ \A v, w \in Workers :
           (v # w /\ wpc[v] = "sleep" /\ wpc[w] = "sleep")
               => wtask[v].task_id # wtask[w].task_id
    /\ \A id \in IssuedIds : ResultsFor(id) <= 1

\* C4: a get_task_result call that gave up at its deadline leaves the task
\* where it was; the task's Result is still eventually recorded, and a later
\* call with timeout None on a recorded id returns the recorded Result.
TimedOut == gpc = "done" /\ gtimeout # NoTimeout /\ gret = Absent

C4_TimeoutDoesNotCancel ==
    /\ \A c \in 1..MaxTasks :
           []((TimedOut /\ Len(issued) >= c /\ gid = issued[c]) =>
                  <>(Len(issued) >= c /\ issued[c] \in DOMAIN completed_tasks))
    /\ [][ (gpc = "loop" /\ gpc' = "done" /\ gtimeout # NoTimeout
               /\ gret' = Absent)
           => UNCHANGED << task_queue, pending_tasks, result_queue, wpc,
                           wtask, wtimer >> ]_vars
    /\ [][ (gpc = "loop" /\ gpc' = "done" /\ gtimeout = NoTimeout
               /\ gid \in DOMAIN completed_tasks)
           => gret' = completed_tasks[gid] ]_vars

\* a wait on a submitted task gave up after sleeping, and the task's Result
\* has been recorded since
C4_Witness ==
    /\ TimedOut
    /\ gslept
    /\ gid \in IssuedIds
    /\ gid \in DOMAIN completed_tasks

\* C5: a call with timeout None never sleeps and can always take its step,
\* makes one read and returns: the recorded Result for a completed id, absent
\* for a pending id and for an id never submitted alike.
C5_Snapshot ==
    /\ []((gpc = "loop" /\ gtimeout = NoTimeout)
             => (gtimer = 0 /\ greads = 0 /\ ~gslept /\ ENABLED GetStep))
    /\ []((gpc = "done" /\ gtimeout = NoTimeout) => (greads = 1 /\ ~gslept))
    /\ [][ (gpc = "loop" /\ gtimeout = NoTimeout /\ gpc' # gpc)
           => /\ gpc' = "done"
              /\ gid \in DOMAIN completed_tasks => gret' = completed_tasks[gid]
              /\ gid \notin DOMAIN completed_tasks => gret' = Absent ]_vars

\* a snapshot of a pending id returned absent
C5_Witness ==
    /\ gpc = "done"
    /\ gtimeout = NoTimeout
    /\ gid \in DOMAIN pending_tasks
    /\ gid \notin DOMAIN completed_tasks
    /\ gret = Absent

\* C6: a call with a timeout returns absent only from a read made at or
\* after the deadline that finds no Result for the id, and returns the
\* recorded Result whenever there is one at the read; with a timeout of 0 or
\* less that read is the only one and the call does not sleep.
C6_FinalRead ==
    [][ (gpc = "loop" /\ gpc' = "done" /\ gtimeout # NoTimeout)
        => /\ gret' = Absent
                => (gremain <= 0 /\ gid \notin DOMAIN completed_tasks)
           /\ gid \in DOMAIN completed_tasks => gret' = completed_tasks[gid]
           /\ gtimeout[1] <= 0 => (greads' = 1 /\ ~gslept') ]_vars

\* a wait of one unit slept, reached its deadline and got the Result from
\* the read made after it
C6_Witness ==
    /\ gpc = "done"
    /\ gtimeout = << 1 >>
    /\ gremain = 0
    /\ gslept
    /\ gret # Absent

\* the monitor thread has no path out of its loop
MonitorAlive == mpc \in { "check", "insert" }

\* C7 as stated: after shutdown() has returned nothing started by the
\* scheduler is alive, neither a worker nor the monitor thread.
C7_NothingAlive ==
    shutdowns >= 1 => ((\A w \in Workers : ~Alive(w)) /\ ~MonitorAlive)

\* C7 amended: after shutdown() has returned no worker process is alive, and
\* a later call finds every join returning at once, so it completes.
C7_NoWorkerAlive ==
    /\ shutdowns >= 1 => \A w \in Workers : ~Alive(w)
    /\ (shutdowns >= 1 /\ spc = "join") => ENABLED ShutdownJoin

\* a second shutdown() has returned, after a worker had to be terminated
C7_Witness ==
    /\ shutdowns = 2
    /\ \E w \in Workers : wpc[w] = "terminated"

----------------------------------------------------------------------------
(* Properties of the Results a worker puts on result_queue *)

\* s contains the known name c and no other known name
OnlyName(s, c) ==
    /\ Contains(s, c)
    /\ \A d \in KnownCases \ { c } : ~Contains(s, d)

Infers(t) ==
    \/ t.task_type = Speech
    \/ t.task_type = Reasoning /\ t.case_name = NoCase

\* the Result text shows that case c was looked up
MappedTo(r, c) ==
    \/ r.result = << "no data found for case " >> \o c \o << " (data)" >>
    \/ /\ Len(r.result) > Len(c) + 1
       /\ r.result[1] = "=== "
       /\ SubSeq(r.result, 2, Len(c) + 1) = c
       /\ r.result[Len(c) + 2] \in { " dialogue record ===",
                                     " medical reasoning ===" }

\* C8: a transcription task, or a reasoning task without case hint, whose
\* payload contains none of the three names yields a Result with status
\* error and a message saying that the case could not be identified.
C8_UnknownCaseIsError ==
    \A i \in DOMAIN result_queue :
        LET r == result_queue[i]
            t == pending_tasks[r.task_id]
        IN  (Infers(t) /\ \A c \in KnownCases : ~Contains(t.data, c))
                => /\ r.status = "error"
                   /\ r.result[1] \in
                          { "cannot identify the case of audio file: ",
                            "cannot determine the case name, run transcription first" }

\* C9 as stated: a payload that contains exactly one known name, anywhere in
\* the reference, is mapped to that case by both kinds of inference.
C9_AnywhereInReference ==
    \A i \in DOMAIN result_queue : \A c \in KnownCases :
        LET r == result_queue[i]
            t == pending_tasks[r.task_id]
        IN  (Infers(t) /\ OnlyName(t.data, c)) => MappedTo(r, c)

\* C9 amended: for transcription the name must be in the file name of the
\* reference (what follows the last "/"); for reasoning without hint it may
\* be anywhere in the text.
C9_InferredCase ==
    \A i \in DOMAIN result_queue : \A c \in KnownCases :
        LET r == result_queue[i]
            t == pending_tasks[r.task_id]
        IN  /\ (t.task_type = Speech /\ OnlyName(Basename(t.data), c))
                => MappedTo(r, c)
            /\ (t.task_type = Reasoning /\ t.case_name = NoCase
                    /\ OnlyName(t.data, c))
                => MappedTo(r, c)

\* a transcription Result for the file named after the second case
C9_Witness ==
    \E i \in DOMAIN result_queue :
        /\ pending_tasks[result_queue[i].task_id].task_type = Speech
        /\ pending_tasks[result_queue[i].task_id].data = PWangFile
        /\ MappedTo(result_queue[i], Wang)

\* what the full table maps each case to
DialogueOf(c) == CASE c = Wu -> << "D1" >> [] c = Wang -> << "D2" >>
                   [] c = Zhang -> << "D3" >>
ReasoningOf(c) == CASE c = Wu -> << "R1" >> [] c = Wang -> << "R2" >>
                    [] c = Zhang -> << "R3" >>

\* C10: processed by a worker that loaded the full table, a transcription
\* task whose file name references case c yields a success Result made of
\* the dialogue header for c and the dialogue of c, and a reasoning task
\* with case hint c yields a success Result made of the reasoning header for
\* c and the reasoning of c.
C10_Scenario ==
    \A i \in DOMAIN result_queue : \A w \in Workers : \A c \in KnownCases :
        LET r == result_queue[i]
            t == pending_tasks[r.task_id]
        IN  (wtask[w] = t /\ scripts_data[w] = DataFull)
                => /\ (t.task_type = Speech /\ OnlyName(Basename(t.data), c))
                       => /\ r.status = "success"
                          /\ r.result = << "=== " >> \o c
                                 \o << " dialogue record ===", "\n", "\n" >>
                                 \o DialogueOf(c)
                   /\ (t.task_type = Reasoning /\ t.case_name = c)
                       => /\ r.status = "success"
                          /\ r.result = << "=== " >> \o c
                                 \o << " medical reasoning ===", "\n", "\n" >>
                                 \o ReasoningOf(c)

\* the transcription Result of the scenario, for the first case, whose
\* table has a second row that must not be used
C10_Witness ==
    \E i \in DOMAIN result_queue : \E w \in Workers :
        LET r == result_queue[i]
            t == pending_tasks[r.task_id]
        IN  /\ wtask[w] = t /\ scripts_data[w] = DataFull
            /\ t.task_type = Speech /\ t.data = PWuFile
            /\ r.result = DialogueHeader(Wu) \o << "D1" >>

\* the table has a row for case c
HasCase(data, c) ==
    data.loaded /\ \E i \in DOMAIN data.rows : data.rows[i].case = c

\* the case the worker determines for task t is c
Determined(t, c) ==
    \/ t.task_type = Speech /\ OnlyName(Basename(t.data), c)
    \/ t.task_type = Reasoning /\ t.case_name = c

\* C11: when the case of a task is determined but the worker's dataset is
\* unavailable or has no row for that case, the worker's Result has status
\* error and a message that names the case.
C11_LookupFailureIsError ==
    \A i \in DOMAIN result_queue : \A w \in Workers : \A c \in KnownCases :
        LET r == result_queue[i]
            t == pending_tasks[r.task_id]
        IN  (wtask[w] = t /\ Determined(t, c) /\ ~HasCase(scripts_data[w], c))
                => /\ r.status = "error"
                   /\ Contains(r.result, c)

\* the None items put on task_queue so far and not yet received
SentinelsLeft ==
    Cardinality({ i \in DOMAIN task_queue : task_queue[i] = Sentinel })
SentinelsPut == NumWorkers * (shutdowns + (IF spc = "join" THEN 1 ELSE 0))

\* C12: an exception raised in the body of the worker loop puts one Result
\* with status error carrying the exception's message, and ends no worker:
\* the worker that raised is back at task_queue.get() and can receive the
\* next item; a worker leaves its loop only by receiving a sentinel (or is
\* terminated by shutdown).
C12_WorkerSurvival ==
    /\ [][ faults' > faults
           => /\ Len(result_queue') = Len(result_queue) + 1
              /\ result_queue'[Len(result_queue')].status = "error"
              /\ result_queue'[Len(result_queue')].result
                     = << "processing failed: ", "E" >>
              /\ \A w \in Workers : Alive(w) => wpc'[w] \in { "get", "sleep" }
              /\ \E w \in Workers :
                     /\ wpc'[w] = "get"
                     /\ wpc[w] = "sleep" \/ task_queue' # task_queue ]_vars
    /\ [](\A w \in Workers :
              (wpc[w] = "get" /\ task_queue # << >>) => ENABLED WorkerGet(w))
    /\ [](Cardinality({ w \in Workers : wpc[w] = "exited" })
              = SentinelsPut - SentinelsLeft)

\* one worker handled an exception on the first task, then processed the
\* second task normally and left at the sentinel; the other never had a task
C12_Witness ==
    /\ Len(issued) = 2
    /\ issued[1] \in DOMAIN completed_tasks
    /\ completed_tasks[issued[1]].status = "error"
    /\ issued[2] \in DOMAIN completed_tasks
    /\ completed_tasks[issued[2]].status = "success"
    /\ \E v, w \in Workers :
           /\ v # w
           /\ wtask[v] = NoTask
           /\ wpc[w] = "exited"
           /\ wtask[w].task_id = issued[2]

----------------------------------------------------------------------------
(* Properties of get_simple_scheduler *)

\* C13: whatever the number of get_simple_scheduler calls and the threads
\* making them, one SimpleTaskScheduler at most is ever constructed and
\* every call that returns, returns the same instance.
C13_Singleton ==
    /\ constructed <= 1
    /\ \A t, u \in Threads : (tret[t] # 0 /\ tret[u] # 0) => tret[t] = tret[u]

\* C14: when the coordinator has exited after a signal, the workers of the
\* shared scheduler are not alive.
C14_SignalShutdown ==
    (process = "exited" /\ scheduler_global # 0)
        => scheduler_global \notin pools

----------------------------------------------------------------------------
(* Properties of the in-process fallback *)

\* C15: with no scheduler, async_transcribe_speech and
\* async_medical_reasoning return the text that a worker which loaded the
\* same table puts in its Result for the task the method would have
\* submitted for the same input.
C15_FallbackSameText ==
    /\ last_call.fn = "speech"
           => last_call.ret
                  = ResultText(SimpleTask(Speech, Unknown, last_call.arg,
                                          Uid1, NoCase), main_data)
    /\ last_call.fn = "reasoning"
           => last_call.ret
                  = ResultText(SimpleTask(Reasoning, Unknown, last_call.arg,
                                          Uid1,
                                          ReasoningHint(last_call.arg,
                                                        last_call.case_before)),
                               main_data)

----------------------------------------------------------------------------
(* Further properties of the Results a worker puts on result_queue *)

\* C16: for a reasoning task with a case hint the worker looks up the hinted
\* case and no other, whatever names the payload text contains; a case is
\* inferred from the payload only when there is no hint.
C16_HintPrecedence ==
    \A i \in DOMAIN result_queue :
        LET r == result_queue[i]
            t == pending_tasks[r.task_id]
        IN  t.task_type = Reasoning
                => /\ t.case_name # NoCase
                       => /\ MappedTo(r, t.case_name)
                          /\ \A c \in KnownCases \ { t.case_name } :
                                 ~MappedTo(r, c)
                   /\ t.case_name = NoCase
                       => \A c \in KnownCases :
                              MappedTo(r, c) => Contains(t.data, c)

\* a reasoning Result for the hinted second case although the text names
\* the third
C16_Witness ==
    \E i \in DOMAIN result_queue :
        /\ pending_tasks[result_queue[i].task_id].task_type = Reasoning
        /\ pending_tasks[result_queue[i].task_id].case_name = Wang
        /\ pending_tasks[result_queue[i].task_id].data = PZhangText
        /\ MappedTo(result_queue[i], Wang)

\* C17: a task whose task_type is neither speech nor reasoning yields a
\* Result with status error and a message reporting an unknown task type.
C17_UnknownTypeIsError ==
    \A i \in DOMAIN result_queue :
        LET r == result_queue[i]
            t == pending_tasks[r.task_id]
        IN  t.task_type \notin { Speech, Reasoning }
                => /\ r.status = "error"
                   /\ r.result[1] = "unknown task type: "

----------------------------------------------------------------------------
(* Properties of the two maps *)

\* C18: the task ids returned to threads that call submit_task concurrently
\* (same task type, same submitter, same millisecond) are pairwise distinct,
\* so that each has its own entry in pending_tasks.
C18_ConcurrentUnique ==
    /\ \A i, j \in DOMAIN issued : i # j => issued[i] # issued[j]
    /\ \A t, u \in Threads :
           (t # u /\ sub_task[t] # NoTask /\ sub_task[u] # NoTask)
               => sub_task[t].task_id # sub_task[u].task_id

\* C19: no task id is a key of both pending_tasks and completed_tasks.
C19_DisjointMaps ==
    DOMAIN pending_tasks \cap DOMAIN completed_tasks = { }

\* C20: every task id that submit_task has returned is a key of exactly one
\* of pending_tasks and completed_tasks, and the sizes of the two maps add up
\* to the number of tasks submitted.
C20_NoLostTask ==
    /\ \A id \in IssuedIds :
           (id \in DOMAIN pending_tasks) # (id \in DOMAIN completed_tasks)
    /\ Cardinality(DOMAIN pending_tasks) + Cardinality(DOMAIN completed_tasks)
           = Len(issued)

----------------------------------------------------------------------------
(* Properties of the exception handler and of the monitor thread *)

\* C21: an error Result put by the exception handler carries the id of the
\* task whose processing raised, or "unknown" when the worker had obtained
\* no task in that iteration (task_queue.get() itself raised); it never
\* carries the id of a task of an earlier iteration.
C21_ErrorTagging ==
    [][ faults' > faults
        => LET r == result_queue'[Len(result_queue')]
           IN  IF task_queue' # task_queue
               THEN r.task_id = Unknown
               ELSE \E w \in Workers :
                        /\ wpc[w] = "sleep" /\ wpc'[w] = "get"
                        /\ r.task_id = wtask[w].task_id ]_vars

\* what one iteration of the monitor thread that found a Result does to the
\* two maps and to result_queue
CollectorMove ==
    /\ (mpc = "check" /\ mpc' = "insert")
           => /\ result_queue # << >>
              /\ mres' = Head(result_queue)
              /\ result_queue' = Tail(result_queue)
              /\ DOMAIN pending_tasks' = DOMAIN pending_tasks \ { mres'.task_id }
              /\ \A k \in DOMAIN pending_tasks' :
                     pending_tasks'[k] = pending_tasks[k]
              /\ completed_tasks' = completed_tasks
    /\ (mpc = "insert" /\ mpc' = "check")
           => /\ DOMAIN completed_tasks'
                     = DOMAIN completed_tasks \cup { mres.task_id }
              /\ completed_tasks'[mres.task_id] = mres
              /\ \A k \in DOMAIN completed_tasks \ { mres.task_id } :
                     completed_tasks'[k] = completed_tasks[k]
              /\ pending_tasks' = pending_tasks
              /\ result_queue' = result_queue

\* C22 as stated: an iteration that finds a Result pops that one Result,
\* leaves its id out of pending_tasks, stores it in completed_tasks over any
\* earlier entry and changes no other entry; a pause of the monitor thread
\* begins only in an iteration that found result_queue empty.
C22_PauseOnlyWhenEmpty ==
    [][ /\ CollectorMove
        /\ (mtimer = 0 /\ mtimer' > 0 /\ faults' = faults)
               => (mpc = "check" /\ result_queue = << >>) ]_vars

\* C22 amended: the same effect on the maps, and the monitor thread pauses
\* at the end of every iteration, after storing a Result as well as after
\* finding result_queue empty.
C22_CollectorStep ==
    [][ /\ CollectorMove
        /\ (~contention /\ mpc = "insert" /\ mpc' = "check") => mtimer' > 0
        /\ (~contention /\ mpc = "check" /\ mtimer = 0 /\ mtimer' > 0
               /\ faults' = faults)
               => result_queue = << >> ]_vars

\* the monitor thread has stored a second Result over the first one for the
\* same id, and pauses
C22_Witness ==
    /\ ~contention
    /\ mpc = "check"
    /\ mtimer > 0
    /\ Len(issued) >= 1
    /\ issued[1] \in DOMAIN completed_tasks
    /\ completed_tasks[issued[1]].status = "error"
    /\ \E w \in Workers : wtask[w] # NoTask /\ wtask[w].task_id = issued[1]

\* the ids a Result can carry
ResultIds ==
    { TaskId(Speech, Uid1, c, 0) : c \in 1..MaxTasks } \cup { Unknown }

\* C23: the monitor thread never leaves its loop; an exception in an
\* iteration is followed by a sleep of one unit and a new iteration; and
\* every Result on result_queue is eventually recorded in completed_tasks.
C23_CollectorNeverExits ==
    /\ []MonitorAlive
    /\ [][ (faults' > faults /\ task_queue' = task_queue)
           => (mpc' = "check" /\ mtimer' = 1) ]_vars
    /\ \A id \in ResultIds :
           []((\E i \in DOMAIN result_queue : result_queue[i].task_id = id)
                  => <>(id \in DOMAIN completed_tasks))

\* the monitor thread sleeps after an exception while a Result is waiting
C23_Witness ==
    /\ contention
    /\ mpc = "check"
    /\ mtimer = 1
    /\ result_queue # << >>

\* C24: a task id that is a key of completed_tasks is a key of it in every
\* later state, and is never again a key of pending_tasks.
C24_Retention ==
    [][ \A id \in DOMAIN completed_tasks :
            /\ id \in DOMAIN completed_tasks'
            /\ id \notin DOMAIN pending_tasks' ]_vars

----------------------------------------------------------------------------
(* Properties of submit_task, shutdown and the order of completion *)

\* C25: a submit_task call adds the entry of its id to pending_tasks (one
\* new entry when the id is fresh), then appends its one Task to task_queue;
\* it changes neither completed_tasks nor another entry of pending_tasks,
\* and every statement of a call begun can run whatever the workers do and
\* however many items task_queue holds.
C25_SubmitEffect ==
    /\ [][ \A t \in Threads :
             /\ (sub_pc[t] = "record" /\ sub_pc'[t] = "put")
                    => LET id == sub_task[t].task_id
                       IN  /\ DOMAIN pending_tasks'
                                  = DOMAIN pending_tasks \cup { id }
                           /\ pending_tasks'[id] = sub_task[t]
                           /\ \A k \in DOMAIN pending_tasks \ { id } :
                                  pending_tasks'[k] = pending_tasks[k]
                           /\ id \notin DOMAIN pending_tasks
                                  => Cardinality(DOMAIN pending_tasks')
                                         = Cardinality(DOMAIN pending_tasks) + 1
                           /\ completed_tasks' = completed_tasks
                           /\ task_queue' = task_queue
             /\ (sub_pc[t] = "put" /\ sub_pc'[t] = "idle")
                    => /\ task_queue' = Append(task_queue, sub_task[t])
                       /\ Len(issued') = Len(issued) + 1
                       /\ issued'[Len(issued')] = sub_task[t].task_id
                       /\ pending_tasks' = pending_tasks
                       /\ completed_tasks' = completed_tasks
             /\ (sub_pc[t] \in { "idle", "store", "format" })
                    => (sub_pc'[t] # sub_pc[t]
                            => /\ pending_tasks' = pending_tasks
                               /\ completed_tasks' = completed_tasks
                               /\ task_queue' = task_queue) ]_vars
    /\ [](\A t \in Threads : sub_pc[t] # "idle" => ENABLED SubStep(t))

\* a second call has returned while a worker was busy with the first task
\* and its own task waits on task_queue
C25_Witness ==
    /\ Len(issued) = 2
    /\ issued[1] # issued[2]
    /\ \A t \in Threads : sub_pc[t] = "idle"
    /\ \E w \in Workers : wpc[w] = "sleep" /\ wtask[w].task_id = issued[1]
    /\ Len(task_queue) = 1
    /\ task_queue[1].task_id = issued[2]
    /\ issued[2] \in DOMAIN pending_tasks

\* C26: shutdown() appends one sentinel per worker to task_queue; a worker
\* that receives a sentinel leaves its loop, puts no Result and receives
\* nothing more; a worker still alive when its bounded join of 5 units has
\* expired is terminated; and every shutdown() call returns.
C26_ShutdownProtocol ==
    /\ [][ (spc = "idle" /\ spc' = "join")
           => /\ Len(task_queue') = Len(task_queue) + NumWorkers
              /\ SubSeq(task_queue', 1, Len(task_queue)) = task_queue
              /\ \A i \in (Len(task_queue) + 1)..Len(task_queue') :
                     task_queue'[i] = Sentinel ]_vars
    /\ [][ \A w \in Workers :
             /\ (wpc[w] = "get" /\ wpc'[w] = "exited")
                    => /\ task_queue # << >>
                       /\ Head(task_queue) = Sentinel
                       /\ task_queue' = Tail(task_queue)
                       /\ result_queue' = result_queue
             /\ (wpc[w] = "get" /\ task_queue # << >>
                     /\ Head(task_queue) = Sentinel
                     /\ task_queue' = Tail(task_queue) /\ wpc'[w] # wpc[w])
                    => wpc'[w] = "exited"
             /\ wpc[w] \in { "exited", "terminated" } => wpc'[w] = wpc[w] ]_vars
    /\ [][ Len(task_queue') < Len(task_queue)
           => \E w \in Workers : wpc[w] = "get" ]_vars
    /\ [][ (spc = "join" /\ sidx' # sidx /\ Alive(sidx))
           => (stimer = 0 /\ wpc'[sidx] = "terminated") ]_vars
    /\ [][ (spc = "idle" /\ spc' = "join") => stimer' = 5 ]_vars
    /\ (spc = "join") ~> (spc = "idle")

\* shutdown() has returned once: one worker left at its sentinel, the other
\* was terminated after its join had expired
C26_Witness ==
    /\ shutdowns = 1
    /\ spc = "idle"
    /\ \E v, w \in Workers : wpc[v] = "exited" /\ wpc[w] = "terminated"

\* C27: task_queue holds the submitted tasks not yet received, in the order
\* of submission, and a worker receives the earliest of them; with two
\* workers the task submitted second can nevertheless be recorded in
\* completed_tasks before the task submitted first (the state C27_Witness).
C27_FifoDequeue ==
    /\ [](\A i \in DOMAIN task_queue :
              task_queue[i].task_id
                  = issued[Len(issued) - Len(task_queue) + i])
    /\ [][ \A w \in Workers :
             (wpc[w] = "get" /\ wpc'[w] = "sleep")
                 => /\ wtask'[w].task_id
                           = issued[Len(issued) - Len(task_queue) + 1]
                    /\ task_queue' = Tail(task_queue) ]_vars

\* both tasks were received in order by different workers, the second has
\* been recorded and the first has not
C27_Witness ==
    /\ Len(issued) = 2
    /\ issued[2] \in DOMAIN completed_tasks
    /\ issued[1] \notin DOMAIN completed_tasks
    /\ \E v, w \in Workers :
           /\ v # w
           /\ wtask[v] # NoTask /\ wtask[v].task_id = issued[1]
           /\ wtask[w] # NoTask /\ wtask[w].task_id = issued[2]

----------------------------------------------------------------------------
(* Further properties of get_task_result and of the recorded Results *)

\* C28: no step of a get_task_result call, with or without timeout and
\* whatever it returns, changes pending_tasks, completed_tasks, task_queue
\* or result_queue.
C28_ReadOnly ==
    [][ gvars' # gvars
        => UNCHANGED << pending_tasks, completed_tasks, task_queue,
                        result_queue >> ]_vars

\* a call with a timeout has returned the Result at its first read, and the
\* Result is still recorded
C28_Witness ==
    /\ gpc = "done"
    /\ gtimeout = << 1 >>
    /\ ~gslept
    /\ gret # Absent
    /\ gid \in DOMAIN completed_tasks
    /\ completed_tasks[gid] = gret

\* C29: the Result recorded in completed_tasks for a task id never changes.
C29_ResultStability ==
    [][ \A id \in DOMAIN completed_tasks :
            id \in DOMAIN completed_tasks'
                => completed_tasks'[id] = completed_tasks[id] ]_vars

\* the ids recorded in one of the maps or in the monitor thread's hands
\* between its two statements
Recorded ==
    DOMAIN pending_tasks \cup DOMAIN completed_tasks
        \cup (IF mres # NoResult THEN { mres.task_id } ELSE { })

\* C30: a Task is on task_queue only after its id has been recorded in
\* pending_tasks, so the Result popped by the monitor thread carries an id
\* that is a key of pending_tasks, or was one before and has been moved to
\* completed_tasks, or is "unknown"; every key of completed_tasks other
\* than "unknown" is such an id.
C30_PendingBeforeEnqueue ==
    /\ [](\A i \in DOMAIN task_queue :
              task_queue[i] # Sentinel => task_queue[i].task_id \in Recorded)
    /\ [](\A w \in Workers :
              wtask[w] # NoTask => wtask[w].task_id \in Recorded)
    /\ [](\A i \in DOMAIN result_queue :
              result_queue[i].task_id \in Recorded \cup { Unknown })
    /\ [][ (mpc = "check" /\ mpc' = "insert")
           => \/ mres'.task_id = Unknown
              \/ mres'.task_id \in DOMAIN pending_tasks
              \/ mres'.task_id \in DOMAIN completed_tasks ]_vars
    /\ [][ \A id \in DOMAIN completed_tasks' \ DOMAIN completed_tasks :
               id = Unknown \/ (mpc = "insert" /\ id = mres.task_id) ]_vars

\* the monitor thread has popped the Result of a task that another thread
\* submitted while a first Result, tagged "unknown", was already recorded
C30_Witness ==
    /\ mpc = "insert"
    /\ mres.task_id \in IssuedIds
    /\ mres.task_id \notin DOMAIN pending_tasks
    /\ Unknown \in DOMAIN completed_tasks

----------------------------------------------------------------------------
(* Tasks submitted before shutdown() *)

\* the c-th submitted task waits in task_queue and no sentinel precedes it
Ahead(c) ==
    /\ c \in DOMAIN issued
    /\ \E i \in DOMAIN task_queue :
           /\ task_queue[i] # Sentinel
           /\ task_queue[i].task_id = issued[c]
           /\ \A j \in 1..(i - 1) : task_queue[j] # Sentinel

\* the c-th task has been submitted and shutdown() has not been called yet
SubmittedBefore(c) == c \in DOMAIN issued /\ spc = "idle" /\ shutdowns = 0

\* the Result of the c-th submitted task is recorded in completed_tasks
Completed(c) == c \in DOMAIN issued /\ issued[c] \in DOMAIN completed_tasks

\* the c-th submitted task can no longer be processed: the worker that
\* received it was terminated, or it waits and no worker is left
Stranded(c) ==
    /\ c \in DOMAIN issued
    /\ \/ \E w \in Workers : /\ wpc[w] = "terminated"
                             /\ wtask[w] # NoTask
                             /\ wtask[w].task_id = issued[c]
       \/ /\ \A w \in Workers : ~Alive(w)
          /\ \E i \in DOMAIN task_queue :
                 task_queue[i] # Sentinel /\ task_queue[i].task_id = issued[c]

\* shutdown() puts its sentinels behind the waiting tasks, and a worker
\* leaves its loop only when no task waits ahead of the sentinels
C31_SentinelsBehind ==
    /\ [][ (spc = "idle" /\ spc' = "join")
           => \A c \in DOMAIN issued : Ahead(c) => Ahead(c)' ]_vars
    /\ [][ \A w \in Workers :
             (wpc[w] = "get" /\ wpc'[w] = "exited")
                 => \A c \in DOMAIN issued : ~Ahead(c) ]_vars

\* C31 as stated: sentinels are enqueued behind the tasks submitted before
\* shutdown(), no worker leaves its loop while such a task waits, and every
\* such task eventually has its Result recorded in completed_tasks.
C31_NoTaskLost ==
    /\ C31_SentinelsBehind
    /\ \A c \in 1..MaxTasks :
           SubmittedBefore(c) ~> Completed(c)

\* C31: sentinels are enqueued behind the tasks submitted before
\* shutdown(), no worker leaves its loop at a sentinel while such a task
\* waits, and every such task eventually has its Result recorded in
\* completed_tasks unless the bounded join of shutdown() expires first:
\* then the task is stranded, received by a worker that was terminated or
\* waiting in task_queue with no worker left.
C31_NoTaskLostUnlessTerminated ==
    /\ C31_SentinelsBehind
    /\ \A c \in 1..MaxTasks :
           SubmittedBefore(c) ~> (Completed(c) \/ Stranded(c))

\* shutdown() has returned, both workers left at their sentinels and both
\* tasks submitted before it are recorded
C31_Witness ==
    /\ shutdowns = 1
    /\ Len(issued) = 2
    /\ \A c \in 1..2 : issued[c] \in DOMAIN completed_tasks
    /\ \A w \in Workers : wpc[w] = "exited" /\ wtask[w] # NoTask
    /\ task_queue = << >>

----------------------------------------------------------------------------
(* submit_task after shutdown() has returned *)

\* shutdown() has returned at least once and is not running
ShutDown == shutdowns >= 1 /\ spc = "idle"

\* the ids of the tasks waiting in task_queue
WaitingIds ==
    { task_queue[i].task_id :
        i \in { j \in DOMAIN task_queue : task_queue[j] # Sentinel } }

\* C32: a submit_task call made after shutdown() has returned does not
\* raise and returns a fresh id, recorded in pending_tasks with its task
\* appended to task_queue; from then on nothing is taken from task_queue, so
\* in every later state the task still waits, its id is in pending_tasks and
\* not in completed_tasks, and a get_task_result call for it returns absent
\* whatever its timeout.
C32_SubmitAfterShutdown ==
    /\ []((ShutDown /\ task_counter < MaxTasks)
              => \A req \in LiveRequests : ENABLED SubmitTask(req, 0))
    /\ [][ (ShutDown /\ issued' # issued)
           => /\ Len(issued') = Len(issued) + 1
              /\ issued'[Len(issued')] \notin IssuedIds
              /\ issued'[Len(issued')] \in DOMAIN pending_tasks'
              /\ task_queue' # << >>
              /\ task_queue'[Len(task_queue')] # Sentinel
              /\ task_queue'[Len(task_queue')].task_id
                     = issued'[Len(issued')] ]_vars
    /\ [][ shutdowns >= 1
           => /\ Len(task_queue') >= Len(task_queue)
              /\ SubSeq(task_queue', 1, Len(task_queue)) = task_queue
              /\ \A w \in Workers : wpc'[w] = wpc[w] /\ ~Alive(w) ]_vars
    /\ [](shutdowns >= 1
              => \A id \in WaitingIds :
                     /\ id \in DOMAIN pending_tasks
                     /\ id \notin DOMAIN completed_tasks
                     /\ \A i \in DOMAIN result_queue :
                            result_queue[i].task_id # id
                     /\ (mres # NoResult => mres.task_id # id)
                     /\ (gpc = "done" /\ gid = id => gret = Absent))

\* a task submitted after shutdown() had returned still waits after a
\* get_task_result call with a timeout of one unit has slept and returned
\* absent for it
C32_Witness ==
    /\ ShutDown
    /\ Len(issued) = 2
    /\ issued[1] \in DOMAIN completed_tasks
    /\ WaitingIds = { issued[2] }
    /\ issued[2] \in DOMAIN pending_tasks
    /\ gpc = "done"
    /\ gid = issued[2]
    /\ gtimeout = << 1 >>
    /\ gslept
    /\ gret = Absent

----------------------------------------------------------------------------
(* One worker *)

\* the submitted tasks whose id is a key of completed_tasks
RecordedTasks == { c \in DOMAIN issued : issued[c] \in DOMAIN completed_tasks }

\* C33: with a scheduler of exactly one worker and no shutdown, Results are
\* recorded in completed_tasks in the order in which their tasks were
\* submitted: no id is recorded for the first time after the id of a task
\* submitted later, the Results on result_queue and in the monitor thread's
\* hands are in the order of submission, and as long as no get() has raised
\* the recorded tasks are the first ones submitted, none skipped.
C33_SingleWorkerOrder ==
    /\ [][ \A c \in RecordedTasks' \ RecordedTasks :
               \A j \in RecordedTasks : j < c ]_vars
    /\ [](faults = 0
              => /\ \A j \in RecordedTasks : \A i \in 1..j : i \in RecordedTasks
                 /\ \A i, j \in DOMAIN result_queue :
                        i < j => \E a, b \in DOMAIN issued :
                                     /\ a < b
                                     /\ issued[a] = result_queue[i].task_id
                                     /\ issued[b] = result_queue[j].task_id
                 /\ mres # NoResult
                        => \A i \in DOMAIN result_queue :
                               \E a, b \in DOMAIN issued :
                                   /\ a < b
                                   /\ issued[a] = mres.task_id
                                   /\ issued[b] = result_queue[i].task_id)
    /\ [](\A w \in Workers : w > SingleWorker => wpc[w] = "unstarted")

\* the Result of the first task is recorded, that of the second has been
\* popped by the monitor thread and is recorded next
C33_Witness ==
    /\ Len(issued) = 2
    /\ RecordedTasks = { 1 }
    /\ mpc = "insert"
    /\ mres.task_id = issued[2]
    /\ wpc[1] = "get"
    /\ wtask[1].task_id = issued[2]

====
